---------------------------- MODULE Spec2Model ----------------------------
(***************************************************************************)
(* State-machine model of three programs of the repository:                *)
(*   - the count-based benchmark harness   (src/aurora-map-bench.py),      *)
(*   - the duration-based harness          (src/aurora-map-query-bench2.py)*)
(*   - the parallel inserter               (src/aurora-map-insertmany.py). *)
(* One run executes one of the programs; prog records which.  The          *)
(* variables of the programs that do not run keep their initial values.    *)
(*                                                                         *)
(* Library behaviour the programs rely on:                                 *)
(*   psycopg2.pool.ThreadedConnectionPool.getconn never waits: with        *)
(*   maxconn connections in use it raises PoolError("connection pool       *)
(*   exhausted"); otherwise it hands out an idle connection or opens a new *)
(*   one, and opening can raise.                                           *)
(*   concurrent.futures: leaving the `with ThreadPoolExecutor` block joins *)
(*   every worker; Future.result() re-raises the task's exception.         *)
(*   queue.Queue: put blocks while the queue is full, get(timeout) raises  *)
(*   queue.Empty after the timeout on an empty queue, join() returns when  *)
(*   unfinished_tasks is 0; put adds 1 to it and task_done subtracts 1.    *)
(***************************************************************************)
EXTENDS Integers, Sequences, FiniteSets, TLC

\* ------------------------------------------------------------------ bounds
\* largest concurrency level (worker count) of a run
MaxConc == 2
\* largest --queries (queries per thread) of the count-based harness
MaxQueries == 2
\* largest --pool-size
MaxPool == 2
\* most queries one worker of the duration-based harness starts in one level
MaxDurQueries == 2
\* --duration of the duration-based harness: the length of a level, in ticks
duration == 2
\* longest list of latencies the statistics are applied to
MaxSamples == 20
\* the short lists of latencies hold any values of 1..MaxLatency and have up
\* to MaxShort elements
MaxShort == 3
MaxLatency == 3
\* print_summary is applied to lists of up to MaxSummary levels with a
\* queries_per_second of 0..MaxQps
MaxSummary == 3
MaxQps == 2
\* the split into batches is applied to 1..MaxSplitRows rows and batch sizes
\* of 1..MaxSplitSize
MaxSplitRows == 9
MaxSplitSize == 4

\* the JSON update drivers, scaled down: threads (NUM_THREADS, line 14 / 55),
\* ids drawn by random.randint(1, MAX_ID) (line 15 / 56), and the calls of
\* update_row a thread makes before the model stops following it
NUM_THREADS == 2
MAX_ID == 2
MaxUpdateCalls == 2

\* the inserter's constants (lines 23-28), scaled down: worker threads, rows
\* to insert, rows per batch
NUM_WORKERS == 2
NUM_ROWS == 13
BATCH_SIZE == 2

Workers == 1..MaxConc

Max(a, b) == IF a >= b THEN a ELSE b

RECURSIVE SeqMax(_)
SeqMax(s) == IF Len(s) = 1 THEN s[1] ELSE Max(s[1], SeqMax(Tail(s)))

\* the lists --concurrency can hold: one level, or a sweep of two levels in
\* any order
LevelLists == {<<a>> : a \in 1..MaxConc}
                \cup {<<a, b>> : a \in 1..MaxConc, b \in 1..MaxConc}

VARIABLES
  prog,          \* which program runs: "count", "duration", "insert", or
                 \* "stats" for the statistics applied to a list of latencies,
                 \* "summary" for print_summary applied to a result list,
                 \* "batches" for the inserters' split of the rows,
                 \* "update" for a JSON update driver
  \* ---- count-based harness (aurora-map-bench.py)
  entry,         \* "main": started from main(); "api": the class used directly
  c_levels,      \* args.concurrency
  c_queries,     \* args.queries
  pool_size,     \* self.pool_size (maxconn of the pool)
  used,          \* connections checked out of the pool (len of its _used)
  c_main,        \* position of main: "setup", "loop", "closed", "failed"
  c_idx,         \* index in c_levels of the level being run (next to run)
  c_run,         \* position of run_benchmark: "idle", "running", "stats", "returned"
  c_ret,         \* what run_benchmark returned: "unset", "None" or "stats"
  cpc,           \* per worker: position in worker_task / execute_query
  conn,          \* per worker: execute_query's local conn is not None
  timing,        \* per worker: start_time taken and execution_time not yet computed
  err,           \* per worker: what the current execute_query call raised
  iter,          \* per worker: queries attempted so far (loop index i)
  task_results,  \* per worker: len(results) of worker_task
  results,       \* len(results) of run_benchmark
  all_results,   \* main's all_results: the concurrency of each appended level
  put_on_error,  \* history: in this level a finally clause has given back a
                 \* connection after the query raised
  \* ---- duration-based harness (aurora-map-query-bench2.py)
  d_max,         \* args.max_concurrency
  d_step,        \* args.step_size
  d_level,       \* concurrency of the level being run (next to run)
  d_main,        \* position of main: "test", "sweep", "exit0", "exit1"
  d_run,         \* position of run_benchmark: "idle", "sleep", "wait",
                 \* "process", "returned", "raised"
  stop_event,    \* self.stop_event is set
  results_queue, \* number of samples in self.results_queue
  dpc,           \* per worker: position in execute_query
  d_conn,        \* per worker: its connection is open
  d_timing,      \* per worker: query_start taken and query_end not yet
  d_exit,        \* per worker: why the loop was left: "none", "stop", "error"
  query_count,   \* per worker: query_count
  total_queries, \* run_benchmark's total_queries
  drained,       \* len(query_times) of run_benchmark
  d_results,     \* run_escalating_benchmark's results: the concurrency of
                 \* each appended level
  after_stop,    \* history, per worker: queries it began in this level while
                 \* the stop event was already set
  d_wall,        \* time that has passed since run_benchmark submitted the
                 \* level's workers, as far as it is settled
  \* ---- parallel inserter (aurora-map-insertmany.py)
  q,             \* the work queue: batch sizes, PoisonPill for None
  unfinished,    \* the queue's unfinished_tasks counter
  ipc,           \* position of insert_data_parallel: "put", "pills", "join",
                 \* "sum", "done", "raised"
  batch_id,      \* batches enqueued so far
  pills,         \* poison pills enqueued so far
  iw,            \* per worker: position in worker_insert
  item,          \* per worker: size of the batch it holds (0: none)
  rows_inserted, \* per worker: rows_inserted
  total_inserted, \* insert_data_parallel's total_inserted
  \* ---- the statistics of both harnesses, applied to a list of latencies
  times,         \* execution_times (bench) / query_times (bench2)
  stats_c,       \* what the count-based run_benchmark makes of times
  stats_d,       \* what the duration-based run_benchmark makes of times
  \* ---- print_summary of the duration-based harness, applied to a result list
  summary,       \* the results given to print_summary: per level its
                 \* concurrency and its queries_per_second
  optimal,       \* what print_summary found as the optimal level
  \* ---- the split of the rows into batches, of both inserters
  split_rows,    \* NUM_ROWS
  split_size,    \* the batch size (BATCH_SIZE / batch_size)
  par_batches,   \* sizes of the batches insert_data_parallel puts, in order
  seq_batches,   \* sizes of the batches insert_data inserts, in order
  \* ---- JSON update drivers (aurora-json-update-all.py / -set.py)
  u_driver,      \* "all": full JSON update, "set": partial update by JSON_SET
  fight,         \* ids of the rows of table fight
  utpc,          \* per thread: position in thread_task: "start", "loop",
                 \* "closed" (left by the except clause), "raised"
  updates_count, \* per thread: updates_count
  u_calls,       \* per thread: calls of update_row made
  u_updated,     \* history, per thread: rows it updated and committed
  u_last         \* history, per thread: how its last update_row call went

cvars == <<entry, c_levels, c_queries, pool_size, used, c_main, c_idx, c_run,
           c_ret, cpc, conn, timing, err, iter, task_results, results, all_results, put_on_error>>

dvars == <<d_max, d_step, d_level, d_main, d_run, stop_event, results_queue,
           dpc, d_conn, d_timing, d_exit, query_count, total_queries, drained,
           d_results, after_stop, d_wall>>

ivars == <<q, unfinished, ipc, batch_id, pills, iw, item, rows_inserted,
           total_inserted>>

bvars == <<split_rows, split_size, par_batches, seq_batches>>

uvars == <<u_driver, fight, utpc, updates_count, u_calls, u_updated, u_last>>

svars == <<times, stats_c, stats_d, summary, optimal, bvars, uvars>>

vars == <<prog, cvars, dvars, ivars, svars>>

\* ------------------------------------------------ count-based harness
\* mutant of MainPoolSize: main passes --pool-size on as it is
MainPoolSizeNoMax(argPool, levels) == argPool

\* main, lines 223-224
MainPoolSize(argPool, levels) == Max(argPool, SeqMax(levels))

CInitWorkers ==
  /\ cpc = [w \in Workers |-> "none"]
  /\ conn = [w \in Workers |-> FALSE]
  /\ timing = [w \in Workers |-> FALSE]
  /\ err = [w \in Workers |-> "none"]
  /\ iter = [w \in Workers |-> 0]
  /\ task_results = [w \in Workers |-> 0]

CInitRun ==
  /\ used = 0
  /\ c_idx = 1
  /\ c_run = "idle"
  /\ c_ret = "unset"
  /\ results = 0
  /\ all_results = << >>
  /\ put_on_error = FALSE
  /\ CInitWorkers

\* the count-based harness does not run
CIdle ==
  /\ entry = "main"
  /\ c_levels = <<1>>
  /\ c_queries = 1
  /\ pool_size = 1
  /\ c_main = "setup"
  /\ CInitRun

\* main() up to the construction of the benchmark object, lines 193-225:
\* the pool is to be as large as the largest level
CInitMain ==
  /\ entry = "main"
  /\ c_levels \in LevelLists
  /\ c_queries \in 1..MaxQueries
  /\ \E argPool \in 1..MaxPool : pool_size = MainPoolSize(argPool, c_levels)
  /\ c_main = "setup"
  /\ CInitRun

\* PostgreSQLBenchmark(db_config, pool_size).run_benchmark(concurrency, q)
\* called directly: pool_size is whatever the caller passes (default 20)
CInitApi ==
  /\ entry = "api"
  /\ c_levels \in {<<c>> : c \in 1..MaxConc}
  /\ c_queries \in 1..MaxQueries
  /\ pool_size \in 1..MaxPool
  /\ c_main = "loop"
  /\ CInitRun

\* main, line 227, and setup_connection_pool, lines 50-61: the pool is
\* created, or its exception is raised again, caught by main at line 252 and
\* logged, which ends main
CSetupPool ==
  /\ prog = "count" /\ entry = "main" /\ c_main = "setup"
  /\ c_main' \in {"loop", "failed"}
  /\ UNCHANGED <<dvars, ivars, svars, prog, entry, c_levels, c_queries, pool_size, used,
                 c_idx, c_run, c_ret, cpc, conn, timing, err, iter, task_results,
                 results, all_results, put_on_error>>

\* the exit status of the process once main is over: main returns None on
\* every path and line 257 calls main() without sys.exit
CExitCode == 0

Concurrency == c_levels[c_idx]

\* a runner that submits one task too many
CohortExtra == 1..(IF Concurrency < MaxConc THEN Concurrency + 1 ELSE Concurrency)

\* run_benchmark, lines 131-134: one worker_task per thread_id in
\* range(concurrency)
Cohort == 1..Concurrency

\* run_benchmark, lines 124-134: every worker_task is submitted
CStartLevel ==
  /\ prog = "count" /\ c_main = "loop" /\ c_run = "idle"
  /\ c_idx <= Len(c_levels)
  /\ c_run' = "running"
  /\ c_ret' = "unset"
  /\ results' = 0
  /\ put_on_error' = FALSE
  /\ cpc' = [w \in Workers |-> IF w \in Cohort THEN "loop" ELSE "none"]
  /\ conn' = [w \in Workers |-> FALSE]
  /\ timing' = [w \in Workers |-> FALSE]
  /\ err' = [w \in Workers |-> "none"]
  /\ iter' = [w \in Workers |-> 0]
  /\ task_results' = [w \in Workers |-> 0]
  /\ UNCHANGED <<dvars, ivars, svars, prog, entry, c_levels, c_queries, pool_size, used, c_main,
                 c_idx, all_results>>

\* what a worker step leaves alone
CWorkerFrame ==
  UNCHANGED <<dvars, ivars, svars, prog, entry, c_levels, c_queries, pool_size, c_main, c_idx,
              c_run, c_ret, results, all_results>>

\* worker_task, lines 107-114, and execute_query, lines 85-87: the first
\* iteration calls execute_query, which sets conn = None and takes start_time
\* before it asks the pool for a connection
CCall(w) ==
  /\ prog = "count" /\ cpc[w] = "loop" /\ iter[w] < c_queries
  /\ cpc' = [cpc EXCEPT ![w] = "getconn"]
  /\ conn' = [conn EXCEPT ![w] = FALSE]
  /\ timing' = [timing EXCEPT ![w] = TRUE]
  /\ err' = [err EXCEPT ![w] = "none"]
  /\ UNCHANGED <<used, iter, task_results, put_on_error>>
  /\ CWorkerFrame

\* execute_query, line 88: connection_pool.getconn(); an exception goes
\* through lines 98-100 (log, return None) to the finally clause
CGetConn(w) ==
  /\ prog = "count" /\ cpc[w] = "getconn"
  /\ \/ /\ used < pool_size
        /\ used' = used + 1
        /\ conn' = [conn EXCEPT ![w] = TRUE]
        /\ cpc' = [cpc EXCEPT ![w] = "exec"]
        /\ UNCHANGED err
     \/ /\ used < pool_size          \* opening a new connection fails
        /\ err' = [err EXCEPT ![w] = "connect"]
        /\ cpc' = [cpc EXCEPT ![w] = "finally"]
        /\ UNCHANGED <<used, conn>>
     \/ /\ used >= pool_size         \* PoolError: connection pool exhausted
        /\ err' = [err EXCEPT ![w] = "exhausted"]
        /\ cpc' = [cpc EXCEPT ![w] = "finally"]
        /\ UNCHANGED <<used, conn>>
  /\ UNCHANGED <<timing, iter, task_results, put_on_error>>
  /\ CWorkerFrame

\* execute_query, lines 90-96: the query runs; on success execution_time is
\* computed and (execution_time, row_count) is the return value; an exception
\* goes through lines 98-100 (log, return None) to the finally clause
CRunQuery(w) ==
  /\ prog = "count" /\ cpc[w] = "exec"
  /\ \/ /\ timing' = [timing EXCEPT ![w] = FALSE]
        /\ UNCHANGED err
     \/ /\ err' = [err EXCEPT ![w] = "query"]
        /\ UNCHANGED timing
  /\ cpc' = [cpc EXCEPT ![w] = "finally"]
  /\ UNCHANGED <<used, conn, iter, task_results, put_on_error>>
  /\ CWorkerFrame

\* execute_query's return value: the tuple, or None after an exception
Returned(w) == IF err[w] = "none" THEN "ok" ELSE "None"

\* mutant of CFinally: the connection is given back only on the success path
\* (putconn at the end of the try body instead of in a finally clause)
CFinallyLeak(w) ==
  /\ prog = "count" /\ cpc[w] = "finally"
  /\ used' = IF conn[w] /\ err[w] = "none" THEN used - 1 ELSE used
  /\ put_on_error' = put_on_error
  /\ conn' = [conn EXCEPT ![w] = FALSE]
  /\ err' = [err EXCEPT ![w] = "none"]
  /\ task_results' = [task_results EXCEPT
                        ![w] = IF Returned(w) = "ok" THEN @ + 1 ELSE @]
  /\ iter' = [iter EXCEPT ![w] = @ + 1]
  /\ IF iter[w] + 1 < c_queries
     THEN /\ cpc' = [cpc EXCEPT ![w] = "getconn"]
          /\ timing' = [timing EXCEPT ![w] = TRUE]
     ELSE /\ cpc' = [cpc EXCEPT ![w] = "done"]
          /\ timing' = [timing EXCEPT ![w] = FALSE]
  /\ CWorkerFrame

\* mutant of CFinally: a failed query ends the worker's loop (the exception
\* is not turned into a None result)
CFinallyBreak(w) ==
  /\ prog = "count" /\ cpc[w] = "finally"
  /\ used' = IF conn[w] THEN used - 1 ELSE used
  /\ put_on_error' = (put_on_error \/ (conn[w] /\ err[w] = "query"))
  /\ conn' = [conn EXCEPT ![w] = FALSE]
  /\ err' = [err EXCEPT ![w] = "none"]
  /\ task_results' = [task_results EXCEPT
                        ![w] = IF Returned(w) = "ok" THEN @ + 1 ELSE @]
  /\ iter' = [iter EXCEPT ![w] = @ + 1]
  /\ IF iter[w] + 1 < c_queries /\ Returned(w) = "ok"
     THEN /\ cpc' = [cpc EXCEPT ![w] = "getconn"]
          /\ timing' = [timing EXCEPT ![w] = TRUE]
     ELSE /\ cpc' = [cpc EXCEPT ![w] = "done"]
          /\ timing' = [timing EXCEPT ![w] = FALSE]
  /\ CWorkerFrame

\* execute_query, lines 101-103: finally: if conn: putconn(conn); then
\* worker_task, lines 115-118: a result that is not None is appended; then
\* either the next iteration calls execute_query (lines 109-114 and 85-87,
\* as in CCall) or the loop is over and results is returned (line 120)
CFinally(w) ==
  /\ prog = "count" /\ cpc[w] = "finally"
  /\ used' = IF conn[w] THEN used - 1 ELSE used
  /\ put_on_error' = (put_on_error \/ (conn[w] /\ err[w] = "query"))
  /\ conn' = [conn EXCEPT ![w] = FALSE]
  /\ err' = [err EXCEPT ![w] = "none"]
  /\ task_results' = [task_results EXCEPT
                        ![w] = IF Returned(w) = "ok" THEN @ + 1 ELSE @]
  /\ iter' = [iter EXCEPT ![w] = @ + 1]
  /\ IF iter[w] + 1 < c_queries
     THEN /\ cpc' = [cpc EXCEPT ![w] = "getconn"]
          /\ timing' = [timing EXCEPT ![w] = TRUE]
     ELSE /\ cpc' = [cpc EXCEPT ![w] = "done"]
          /\ timing' = [timing EXCEPT ![w] = FALSE]
  /\ CWorkerFrame

\* mutant of CohortReturned: the runner goes on as soon as one future is done
CohortReturnedAny == \E w \in Cohort : cpc[w] = "done"

\* run_benchmark, lines 130-143: the as_completed loop ends, and the with
\* block is left, only when every future of the cohort is done
CohortReturned == \A w \in Cohort : cpc[w] = "done"

RECURSIVE SumResults(_, _)
SumResults(f, n) == IF n = 0 THEN 0 ELSE f[n] + SumResults(f, n - 1)

\* run_benchmark, lines 136-144: the results of every future have been added
\* to results (the loop body touches only the runner's own list), and
\* total_time is taken after the with block
CExitPool ==
  /\ prog = "count" /\ c_run = "running"
  /\ CohortReturned
  /\ results' = SumResults(task_results, Concurrency)
  /\ c_run' = "stats"
  /\ UNCHANGED <<dvars, ivars, svars, prog, entry, c_levels, c_queries, pool_size, used, c_main,
                 c_idx, c_ret, cpc, conn, timing, err, iter, task_results,
                 all_results, put_on_error>>

\* run_benchmark, lines 154-157: the counting fields of the stats dict
CStatsRecord == [concurrency |-> Concurrency, total_queries |-> results]

\* run_benchmark, lines 147-173: None without a successful sample, the
\* statistics otherwise
CComputeStats ==
  /\ prog = "count" /\ c_run = "stats"
  /\ c_ret' = IF results = 0 THEN "None" ELSE "stats"
  /\ c_run' = "returned"
  /\ UNCHANGED <<dvars, ivars, svars, prog, entry, c_levels, c_queries, pool_size, used, c_main,
                 c_idx, cpc, conn, timing, err, iter, task_results,
                 results, all_results, put_on_error>>

\* main, lines 232-235: if results: all_results.append(results)
CMainAppend ==
  /\ prog = "count" /\ entry = "main" /\ c_run = "returned"
  /\ all_results' = IF c_ret = "stats"
                    THEN Append(all_results, Concurrency)
                    ELSE all_results
  /\ c_idx' = c_idx + 1
  /\ c_run' = "idle"
  /\ UNCHANGED <<dvars, ivars, svars, prog, entry, c_levels, c_queries, pool_size, used, c_main,
                 c_ret, cpc, conn, timing, err, iter, task_results,
                 results, put_on_error>>

\* main, lines 237-250: the comparison table, then close_connection_pool
CMainFinish ==
  /\ prog = "count" /\ entry = "main" /\ c_main = "loop" /\ c_run = "idle"
  /\ c_idx > Len(c_levels)
  /\ c_main' = "closed"
  /\ UNCHANGED <<dvars, ivars, svars, prog, entry, c_levels, c_queries, pool_size, used, c_idx,
                 c_run, c_ret, cpc, conn, timing, err, iter, task_results,
                 results, all_results, put_on_error>>

CNext ==
  \/ CSetupPool
  \/ CStartLevel
  \/ \E w \in Workers : CCall(w)
  \/ \E w \in Workers : CGetConn(w)
  \/ \E w \in Workers : CRunQuery(w)
  \/ \E w \in Workers : CFinally(w)
  \/ CExitPool
  \/ CComputeStats
  \/ CMainAppend
  \/ CMainFinish

\* ------------------------------------------------ duration-based harness
DInitWorkers ==
  /\ dpc = [w \in Workers |-> "none"]
  /\ d_conn = [w \in Workers |-> FALSE]
  /\ d_timing = [w \in Workers |-> FALSE]
  /\ d_exit = [w \in Workers |-> "none"]
  /\ query_count = [w \in Workers |-> 0]

DInitRun ==
  /\ d_level = d_step
  /\ d_main = "test"
  /\ d_run = "idle"
  /\ stop_event = FALSE
  /\ results_queue = 0
  /\ total_queries = 0
  /\ drained = 0
  /\ d_results = << >>
  /\ after_stop = [w \in Workers |-> 0]
  /\ d_wall = 0
  /\ DInitWorkers

\* the duration-based harness does not run
DIdle ==
  /\ d_max = 1
  /\ d_step = 1
  /\ DInitRun

\* main, lines 188-213, and __init__, lines 31-34
DInitMain ==
  /\ d_max \in 1..MaxConc
  /\ d_step \in 1..MaxConc
  /\ DInitRun

DCohort == 1..d_level

\* main, lines 215-219: the connection test; a failure is caught at line 231
DTestConnection ==
  /\ prog = "duration" /\ d_main = "test"
  /\ d_main' \in {"sweep", "exit1"}
  /\ UNCHANGED <<cvars, ivars, svars, prog, after_stop, d_wall, d_max, d_step, d_level, d_run, stop_event,
                 results_queue, dpc, d_conn, d_timing, d_exit, query_count,
                 total_queries, drained, d_results>>

\* a run_benchmark that reuses the stop event without clearing it
DStartLevelNoClear ==
  /\ prog = "duration" /\ d_main = "sweep" /\ d_run = "idle"
  /\ d_level <= d_max
  /\ results_queue' = 0
  /\ UNCHANGED stop_event
  /\ total_queries' = 0
  /\ drained' = 0
  /\ dpc' = [w \in Workers |-> IF w \in DCohort THEN "start" ELSE "none"]
  /\ d_conn' = [w \in Workers |-> FALSE]
  /\ d_timing' = [w \in Workers |-> FALSE]
  /\ d_exit' = [w \in Workers |-> "none"]
  /\ query_count' = [w \in Workers |-> 0]
  /\ after_stop' = [w \in Workers |-> 0]
  /\ d_wall' = 0
  /\ d_run' = "sleep"
  /\ UNCHANGED <<cvars, ivars, svars, prog, d_max, d_step, d_level, d_main, d_results>>

\* run_escalating_benchmark, line 151, and run_benchmark, lines 99-107: a new
\* result queue, the stop event cleared, every worker submitted
DStartLevel ==
  /\ prog = "duration" /\ d_main = "sweep" /\ d_run = "idle"
  /\ d_level <= d_max
  /\ results_queue' = 0
  /\ stop_event' = FALSE
  /\ total_queries' = 0
  /\ drained' = 0
  /\ dpc' = [w \in Workers |-> IF w \in DCohort THEN "start" ELSE "none"]
  /\ d_conn' = [w \in Workers |-> FALSE]
  /\ d_timing' = [w \in Workers |-> FALSE]
  /\ d_exit' = [w \in Workers |-> "none"]
  /\ query_count' = [w \in Workers |-> 0]
  /\ after_stop' = [w \in Workers |-> 0]
  /\ d_wall' = 0
  /\ d_run' = "sleep"
  /\ UNCHANGED <<cvars, ivars, svars, prog, d_max, d_step, d_level, d_main, d_results>>

DWorkerFrame ==
  UNCHANGED <<cvars, ivars, svars, prog, d_max, d_step, d_level, d_main, d_run, stop_event,
              total_queries, drained, d_results>>

\* execute_query, lines 54-58: create_connection is outside the try block, so
\* its exception leaves the task
DConnect(w) ==
  /\ prog = "duration" /\ dpc[w] = "start"
  /\ \/ /\ d_conn' = [d_conn EXCEPT ![w] = TRUE]
        /\ dpc' = [dpc EXCEPT ![w] = "poll"]
     \/ /\ dpc' = [dpc EXCEPT ![w] = "raised"]
        /\ UNCHANGED d_conn
  /\ UNCHANGED <<results_queue, d_timing, d_exit, query_count, after_stop, d_wall>>
  /\ DWorkerFrame

\* the loop condition of a worker that ignores the stop event
DPollDeaf(w) ==
  /\ prog = "duration" /\ dpc[w] = "poll"
  /\ query_count[w] < MaxDurQueries
  /\ dpc' = [dpc EXCEPT ![w] = "begin"]
  /\ UNCHANGED <<results_queue, d_conn, d_timing, d_exit, query_count, after_stop, d_wall>>
  /\ DWorkerFrame

\* execute_query, lines 61-69: the loop condition polls the stop event; if it
\* is clear the loop body is entered and the query's parameters are chosen
DPoll(w) ==
  /\ prog = "duration" /\ dpc[w] = "poll"
  /\ \/ /\ stop_event
        /\ dpc' = [dpc EXCEPT ![w] = "finally"]
        /\ d_exit' = [d_exit EXCEPT ![w] = "stop"]
     \/ /\ ~stop_event
        /\ query_count[w] < MaxDurQueries
        /\ dpc' = [dpc EXCEPT ![w] = "begin"]
        /\ UNCHANGED d_exit
  /\ UNCHANGED <<results_queue, d_conn, d_timing, query_count, after_stop, d_wall>>
  /\ DWorkerFrame

\* execute_query, lines 71-72: query_start is taken and the query is sent;
\* the stop event is not looked at again
DBegin(w) ==
  /\ prog = "duration" /\ dpc[w] = "begin"
  /\ dpc' = [dpc EXCEPT ![w] = "query"]
  /\ d_timing' = [d_timing EXCEPT ![w] = TRUE]
  /\ after_stop' = [after_stop EXCEPT ![w] = IF stop_event THEN @ + 1 ELSE @]
  /\ UNCHANGED <<results_queue, d_conn, d_exit, query_count, d_wall>>
  /\ DWorkerFrame

\* an execute_query whose round can fail after its sample was put and before
\* its counter was raised
DQueryPutUncounted(w) ==
  /\ prog = "duration" /\ dpc[w] = "query"
  /\ \/ /\ d_timing' = [d_timing EXCEPT ![w] = FALSE]
        /\ results_queue' = results_queue + 1
        /\ query_count' = [query_count EXCEPT ![w] = @ + 1]
        /\ dpc' = [dpc EXCEPT ![w] = "poll"]
        /\ UNCHANGED d_exit
     \/ /\ dpc' = [dpc EXCEPT ![w] = "finally"]
        /\ d_exit' = [d_exit EXCEPT ![w] = "error"]
        /\ d_timing' = [d_timing EXCEPT ![w] = FALSE]
        /\ results_queue' \in {results_queue, results_queue + 1}
        /\ UNCHANGED query_count
  /\ d_wall' = IF stop_event THEN duration + 1 ELSE d_wall
  /\ UNCHANGED <<d_conn, after_stop>>
  /\ DWorkerFrame

\* execute_query, lines 72-87: the round trip, query_end, the sample put on
\* the result queue and query_count += 1; an exception goes to the except
\* clause of the try block around the whole loop (lines 89-90).  A round trip
\* that ends after the stop event was set ends after the sleep of
\* run_benchmark: more than duration has passed
DQuery(w) ==
  /\ prog = "duration" /\ dpc[w] = "query"
  /\ \/ /\ d_timing' = [d_timing EXCEPT ![w] = FALSE]
        /\ results_queue' = results_queue + 1
        /\ query_count' = [query_count EXCEPT ![w] = @ + 1]
        /\ dpc' = [dpc EXCEPT ![w] = "poll"]
        /\ UNCHANGED d_exit
     \/ /\ dpc' = [dpc EXCEPT ![w] = "finally"]
        /\ d_exit' = [d_exit EXCEPT ![w] = "error"]
        /\ d_timing' = [d_timing EXCEPT ![w] = FALSE]
        /\ UNCHANGED <<results_queue, query_count>>
  /\ d_wall' = IF stop_event THEN duration + 1 ELSE d_wall
  /\ UNCHANGED <<d_conn, after_stop>>
  /\ DWorkerFrame

\* execute_query, lines 91-95: cursor and connection closed, then
\* return query_count, elapsed
DFinally(w) ==
  /\ prog = "duration" /\ dpc[w] = "finally"
  /\ d_conn' = [d_conn EXCEPT ![w] = FALSE]
  /\ dpc' = [dpc EXCEPT ![w] = "returned"]
  /\ UNCHANGED <<results_queue, d_timing, d_exit, query_count, after_stop, d_wall>>
  /\ DWorkerFrame

\* run_benchmark, line 111, for a runner that forgets to set the stop event
DStopNoSet ==
  /\ prog = "duration" /\ d_run = "sleep"
  /\ d_wall' = duration
  /\ d_run' = "wait"
  /\ UNCHANGED <<cvars, ivars, svars, prog, after_stop, d_max, d_step, d_level, d_main,
                 stop_event, results_queue,
                 dpc, d_conn, d_timing, d_exit, query_count, total_queries,
                 drained, d_results>>

\* run_benchmark, lines 110-111: time.sleep(duration) is over, the stop event
\* is set
DStop ==
  /\ prog = "duration" /\ d_run = "sleep"
  /\ stop_event' = TRUE
  /\ d_wall' = duration
  /\ d_run' = "wait"
  /\ UNCHANGED <<cvars, ivars, svars, prog, after_stop, d_max, d_step, d_level, d_main,
                 results_queue,
                 dpc, d_conn, d_timing, d_exit, query_count, total_queries,
                 drained, d_results>>

\* a wait that returns with the first future that is done
\* (return_when=FIRST_COMPLETED)
DAnyDone == \E w \in DCohort : dpc[w] \in {"returned", "raised"}

\* run_benchmark, line 114: concurrent.futures.wait(futures) returns when
\* every future is done
DAllDone == \A w \in DCohort : dpc[w] \in {"returned", "raised"}

RECURSIVE SumCounts(_, _)
SumCounts(f, n) == IF n = 0 THEN 0 ELSE f[n] + SumCounts(f, n - 1)

\* run_benchmark, lines 114-118: future.result() of every worker; the
\* exception of a worker that raised is raised again here, out of
\* run_benchmark
DCollect ==
  /\ prog = "duration" /\ d_run = "wait"
  /\ DAllDone
  /\ IF \E w \in DCohort : dpc[w] = "raised"
     THEN /\ d_run' = "raised"
          /\ UNCHANGED total_queries
     ELSE /\ d_run' = "process"
          /\ total_queries' = SumCounts(query_count, d_level)
  /\ UNCHANGED <<cvars, ivars, svars, prog, after_stop, d_wall, d_max, d_step, d_level, d_main, stop_event,
                 results_queue, dpc, d_conn, d_timing, d_exit, query_count,
                 drained, d_results>>

\* run_benchmark, lines 121-141: the result queue is drained and the
\* statistics are computed and returned
DProcess ==
  /\ prog = "duration" /\ d_run = "process"
  /\ drained' = results_queue
  /\ results_queue' = 0
  /\ d_run' = "returned"
  /\ UNCHANGED <<cvars, ivars, svars, prog, after_stop, d_wall, d_max, d_step, d_level, d_main, stop_event,
                 dpc, d_conn, d_timing, d_exit, query_count, total_queries,
                 d_results>>

\* run_benchmark, line 133: 'queries_per_second': total_queries / duration,
\* kept as the pair <<dividend, divisor>>
DQueriesPerSecond == <<total_queries, duration>>

\* run_escalating_benchmark, lines 151-153: results.append(stats), next level
DAppend ==
  /\ prog = "duration" /\ d_run = "returned"
  /\ d_results' = Append(d_results, d_level)
  /\ d_level' = d_level + d_step
  /\ d_run' = "idle"
  /\ UNCHANGED <<cvars, ivars, svars, prog, after_stop, d_wall, d_max, d_step, d_main, stop_event,
                 results_queue, dpc, d_conn, d_timing, d_exit, query_count,
                 total_queries, drained>>

\* main, lines 229-235: print_summary, return 0; max() of an empty result
\* list raises ValueError, caught at line 231: return 1
DSummary ==
  /\ prog = "duration" /\ d_main = "sweep" /\ d_run = "idle"
  /\ d_level > d_max
  /\ d_main' = IF d_results = << >> THEN "exit1" ELSE "exit0"
  /\ UNCHANGED <<cvars, ivars, svars, prog, after_stop, d_wall, d_max, d_step, d_level, d_run, stop_event,
                 results_queue, dpc, d_conn, d_timing, d_exit, query_count,
                 total_queries, drained, d_results>>

\* main, lines 231-233: the exception out of run_benchmark ends the sweep
DAbort ==
  /\ prog = "duration" /\ d_main = "sweep" /\ d_run = "raised"
  /\ d_main' = "exit1"
  /\ UNCHANGED <<cvars, ivars, svars, prog, after_stop, d_wall, d_max, d_step, d_level, d_run, stop_event,
                 results_queue, dpc, d_conn, d_timing, d_exit, query_count,
                 total_queries, drained, d_results>>

\* the exit status of the process once main is over: exit(main()), line 238
DExitCode == IF d_main = "exit0" THEN 0 ELSE 1

DNext ==
  \/ DTestConnection
  \/ DStartLevel
  \/ \E w \in Workers : DConnect(w)
  \/ \E w \in Workers : DPoll(w)
  \/ \E w \in Workers : DBegin(w)
  \/ \E w \in Workers : DQuery(w)
  \/ \E w \in Workers : DFinally(w)
  \/ DStop
  \/ DCollect
  \/ DProcess
  \/ DAppend
  \/ DSummary
  \/ DAbort

\* ------------------------------------------------------ parallel inserter
IWorkers == 1..NUM_WORKERS

\* line 28
QUEUE_SIZE == NUM_WORKERS * 3

\* line 171: the termination signal q.put(None)
PoisonPill == 0

\* insert_data_parallel, lines 155-157
BatchesNeeded(rows, size) ==
  (rows \div size) + (IF rows % size > 0 THEN 1 ELSE 0)

Min(a, b) == IF a <= b THEN a ELSE b

\* insert_data_parallel, line 161
CurrentBatchSize(id, rows, size) == Min(size, rows - id * size)

IInitRun ==
  /\ q = << >>
  /\ unfinished = 0
  /\ ipc = "put"
  /\ batch_id = 0
  /\ pills = 0
  /\ iw = [w \in IWorkers |-> "start"]
  /\ item = [w \in IWorkers |-> 0]
  /\ rows_inserted = [w \in IWorkers |-> 0]
  /\ total_inserted = 0

IProducerFrame ==
  UNCHANGED <<cvars, dvars, svars, prog, iw, item, rows_inserted>>

IWorkerFrame ==
  UNCHANGED <<cvars, dvars, svars, prog, ipc, batch_id, pills, total_inserted>>

\* worker_insert, lines 98-101: psycopg2.connect is outside the try block,
\* so its exception leaves the task
IConnect(w) ==
  /\ prog = "insert" /\ iw[w] = "start"
  /\ \/ iw' = [iw EXCEPT ![w] = "get"]
     \/ iw' = [iw EXCEPT ![w] = "raised"]
  /\ UNCHANGED <<q, unfinished, item, rows_inserted>>
  /\ IWorkerFrame

\* worker_insert, lines 105-107 and 131-133: q.get hands out the head of
\* the queue; None leaves the loop without task_done, the connection is
\* closed and rows_inserted returned
IGet(w) ==
  /\ prog = "insert" /\ iw[w] = "get"
  /\ q # << >>
  /\ q' = Tail(q)
  /\ IF Head(q) = PoisonPill
     THEN /\ iw' = [iw EXCEPT ![w] = "exited"]
          /\ UNCHANGED item
     ELSE /\ iw' = [iw EXCEPT ![w] = "insert"]
          /\ item' = [item EXCEPT ![w] = Head(q)]
  /\ UNCHANGED <<unfinished, rows_inserted>>
  /\ IWorkerFrame

\* worker_insert, lines 105 and 122: the queue stayed empty for 5 seconds,
\* q.get raises queue.Empty
ITimeout(w) ==
  /\ prog = "insert" /\ iw[w] = "get"
  /\ q = << >>
  /\ iw' = [iw EXCEPT ![w] = "empty"]
  /\ UNCHANGED <<q, unfinished, item, rows_inserted>>
  /\ IWorkerFrame

\* worker_insert, lines 123-125 and 131-133: if q.empty(): break
ICheckEmpty(w) ==
  /\ prog = "insert" /\ iw[w] = "empty"
  /\ iw' = [iw EXCEPT ![w] = IF q = << >> THEN "exited" ELSE "get"]
  /\ UNCHANGED <<q, unfinished, item, rows_inserted>>
  /\ IWorkerFrame

\* worker_insert, lines 110-120: the batch is inserted and committed, counted
\* and marked done; lines 126-129: on an exception the transaction is rolled
\* back and the batch is marked done
IInsert(w) ==
  /\ prog = "insert" /\ iw[w] = "insert"
  /\ \/ rows_inserted' = [rows_inserted EXCEPT ![w] = @ + item[w]]
     \/ UNCHANGED rows_inserted
  /\ unfinished' = unfinished - 1
  /\ item' = [item EXCEPT ![w] = 0]
  /\ iw' = [iw EXCEPT ![w] = "get"]
  /\ UNCHANGED q
  /\ IWorkerFrame

\* a producer whose queue has no maxsize: put never blocks
IPutBatchUnbounded ==
  /\ prog = "insert" /\ ipc = "put"
  /\ batch_id < BatchesNeeded(NUM_ROWS, BATCH_SIZE)
  /\ q' = Append(q, CurrentBatchSize(batch_id, NUM_ROWS, BATCH_SIZE))
  /\ unfinished' = unfinished + 1
  /\ batch_id' = batch_id + 1
  /\ UNCHANGED <<ipc, pills, total_inserted>>
  /\ IProducerFrame

\* insert_data_parallel, lines 159-167: the next batch is generated and put;
\* q.put blocks while the queue holds QUEUE_SIZE items
IPutBatch ==
  /\ prog = "insert" /\ ipc = "put"
  /\ batch_id < BatchesNeeded(NUM_ROWS, BATCH_SIZE)
  /\ Len(q) < QUEUE_SIZE
  /\ q' = Append(q, CurrentBatchSize(batch_id, NUM_ROWS, BATCH_SIZE))
  /\ unfinished' = unfinished + 1
  /\ batch_id' = batch_id + 1
  /\ UNCHANGED <<ipc, pills, total_inserted>>
  /\ IProducerFrame

\* insert_data_parallel, lines 159 and 170: the loop over the batches is over
IBatchesDone ==
  /\ prog = "insert" /\ ipc = "put"
  /\ batch_id >= BatchesNeeded(NUM_ROWS, BATCH_SIZE)
  /\ ipc' = "pills"
  /\ UNCHANGED <<q, unfinished, batch_id, pills, total_inserted>>
  /\ IProducerFrame

\* insert_data_parallel, lines 170-171: one None per worker; after the last
\* one the producer calls q.join()
IPutPill ==
  /\ prog = "insert" /\ ipc = "pills"
  /\ Len(q) < QUEUE_SIZE
  /\ q' = Append(q, PoisonPill)
  /\ unfinished' = unfinished + 1
  /\ pills' = pills + 1
  /\ ipc' = IF pills + 1 >= NUM_WORKERS THEN "join" ELSE "pills"
  /\ UNCHANGED <<batch_id, total_inserted>>
  /\ IProducerFrame

\* insert_data_parallel, line 174: q.join() returns when unfinished_tasks is 0
IJoin ==
  /\ prog = "insert" /\ ipc = "join"
  /\ unfinished = 0
  /\ ipc' = "sum"
  /\ UNCHANGED <<q, unfinished, batch_id, pills, total_inserted>>
  /\ IProducerFrame

RECURSIVE SumRows(_, _)
SumRows(f, n) == IF n = 0 THEN 0 ELSE f[n] + SumRows(f, n - 1)

\* insert_data_parallel, lines 177-180: future.result() of every worker
\* (it waits for the worker, and raises again what the worker raised)
ISum ==
  /\ prog = "insert" /\ ipc = "sum"
  /\ \A w \in IWorkers : iw[w] \in {"exited", "raised"}
  /\ IF \E w \in IWorkers : iw[w] = "raised"
     THEN /\ ipc' = "raised"
          /\ UNCHANGED total_inserted
     ELSE /\ ipc' = "done"
          /\ total_inserted' = SumRows(rows_inserted, NUM_WORKERS)
  /\ UNCHANGED <<q, unfinished, batch_id, pills>>
  /\ IProducerFrame

\* IJoin is never enabled in a reachable state (see C1_JoinReturns), so it
\* and ISum, which can only follow it, are no steps of the system
INext ==
  \/ IPutBatch
  \/ IBatchesDone
  \/ IPutPill
  \/ \E w \in IWorkers : IConnect(w)
  \/ \E w \in IWorkers : IGet(w)
  \/ \E w \in IWorkers : ITimeout(w)
  \/ \E w \in IWorkers : ICheckEmpty(w)
  \/ \E w \in IWorkers : IInsert(w)

\* ------------------------------------------------ the harnesses' statistics
\* Latencies are whole numbers of ticks.  A mean is kept as the pair
\* <<sum, count>>.

\* a list of n different latencies: n..1 rotated by r
Rotated(n, r) == [i \in 1..n |-> ((n - i + r) % n) + 1]

\* the lists the statistics are applied to: none, every short list, and the
\* rotations of n different latencies for every n up to MaxSamples
TimesLists ==
  {<< >>}
    \cup UNION {[1..n -> 1..MaxLatency] : n \in 1..MaxShort}
    \cup UNION {{Rotated(n, r) : r \in 0..(n - 1)} : n \in 1..MaxSamples}

RECURSIVE Insert(_, _)
Insert(x, s) ==
  IF s = << >> THEN <<x>>
  ELSE IF x <= s[1] THEN <<x>> \o s
  ELSE <<s[1]>> \o Insert(x, Tail(s))

\* Python's sorted(): ascending
RECURSIVE sorted(_)
sorted(s) == IF s = << >> THEN << >> ELSE Insert(s[1], sorted(Tail(s)))

RECURSIVE sum(_)
sum(s) == IF s = << >> THEN 0 ELSE s[1] + sum(Tail(s))

\* an index one place too low at n = 20: int(n * 0.94)
P95IndexLow(n) == (n * 94) \div 100

\* int(len(execution_times) * 0.95): the 0-based index of the p95 element.
\* 0.95 is a binary float; the product truncated by int() equals
\* floor(95 n / 100) for every n up to 100000.
P95Index(n) == (n * 95) \div 100

\* bench2 line 137: p95 is taken only from 20 samples on
P95MinSamples == 20

RECURSIVE sumsq(_)
sumsq(s) == IF s = << >> THEN 0 ELSE s[1] * s[1] + sumsq(Tail(s))

\* a standard deviation that divides by n (statistics.pstdev): defined for
\* one sample, and a different value from two samples on
pstdev(t) ==
  [raised |-> FALSE,
   value |-> <<Len(t) * sumsq(t) - sum(t) * sum(t), Len(t) * Len(t)>>]

\* statistics.stdev: the sample standard deviation, the square root of
\* (n sum(x^2) - sum(x)^2) / (n (n - 1)), kept as the pair under the root;
\* with fewer than two values it raises StatisticsError
stdev(t) ==
  IF Len(t) < 2 THEN [raised |-> TRUE]
  ELSE [raised |-> FALSE,
        value |-> <<Len(t) * sumsq(t) - sum(t) * sum(t),
                    Len(t) * (Len(t) - 1)>>]

\* statistics.median of a non-empty list, as the pair <<dividend, divisor>>:
\* the middle element, or the mean of the two middle elements
median(t) ==
  LET n == Len(t)
      s == sorted(t)
  IN IF n % 2 = 1 THEN <<s[(n + 1) \div 2], 1>>
     ELSE <<s[n \div 2] + s[(n \div 2) + 1], 2>>

Unset == [kind |-> "unset"]

\* aurora-map-bench.py, run_benchmark lines 147-171, the latency fields; the
\* StatisticsError of stdev is caught and 0 is reported (lines 168-171)
BenchStats(t) ==
  IF t = << >> THEN [kind |-> "None"]
  ELSE [kind |-> "stats",
        total_queries |-> Len(t),
        min_time |-> sorted(t)[1],
        max_time |-> sorted(t)[Len(t)],
        mean_time |-> <<sum(t), Len(t)>>,
        median_time |-> median(t),
        p95_time |-> sorted(t)[P95Index(Len(t)) + 1],
        stddev_time |-> IF stdev(t).raised THEN <<0, 1>> ELSE stdev(t).value]

\* aurora-map-query-bench2.py, run_benchmark lines 129-139, the latency fields
Bench2Stats(t) ==
  [kind |-> "stats",
   avg_query_time |-> IF t # << >> THEN <<sum(t), Len(t)>> ELSE <<0, 1>>,
   min_query_time |-> IF t # << >> THEN sorted(t)[1] ELSE 0,
   max_query_time |-> IF t # << >> THEN sorted(t)[Len(t)] ELSE 0,
   p95_query_time |-> IF Len(t) >= P95MinSamples
                      THEN sorted(t)[P95Index(Len(t)) + 1] ELSE 0]

SIdle ==
  /\ times = << >>
  /\ stats_c = Unset
  /\ stats_d = Unset
  /\ summary = << >>
  /\ optimal = Unset

SInit ==
  /\ times \in TimesLists
  /\ stats_c = Unset
  /\ stats_d = Unset
  /\ summary = << >>
  /\ optimal = Unset

\* the count-based run_benchmark computes its statistics
SBench ==
  /\ prog = "stats" /\ stats_c = Unset
  /\ stats_c' = BenchStats(times)
  /\ UNCHANGED <<cvars, dvars, ivars, prog, times, stats_d, summary, optimal, bvars, uvars>>

\* the duration-based run_benchmark computes its statistics
SBench2 ==
  /\ prog = "stats" /\ stats_d = Unset
  /\ stats_d' = Bench2Stats(times)
  /\ UNCHANGED <<cvars, dvars, ivars, prog, times, stats_c, summary, optimal, bvars, uvars>>

SNext == SBench \/ SBench2

\* --------------------------------------- print_summary (duration-based)
\* the result lists print_summary is applied to: up to MaxSummary levels,
\* the i-th with concurrency i, each with a queries_per_second of 0..MaxQps
SummaryLists ==
  UNION {[1..n -> 0..MaxQps] : n \in 0..MaxSummary}

\* the level of the list with the least queries_per_second
RECURSIVE MinByQps(_)
MinByQps(s) ==
  IF Len(s) = 1 THEN s[1]
  ELSE LET m == MinByQps(Tail(s))
       IN IF s[1].queries_per_second <= m.queries_per_second THEN s[1] ELSE m

\* max(results, key=lambda x: x['queries_per_second']) on a non-empty list:
\* the first element that no other element exceeds
RECURSIVE MaxByQps(_)
MaxByQps(s) ==
  IF Len(s) = 1 THEN s[1]
  ELSE LET m == MaxByQps(Tail(s))
       IN IF s[1].queries_per_second >= m.queries_per_second THEN s[1] ELSE m

PInit ==
  /\ times = << >>
  /\ stats_c = Unset
  /\ stats_d = Unset
  /\ \E f \in SummaryLists :
       summary = [i \in 1..Len(f) |->
                    [concurrency |-> i, queries_per_second |-> f[i]]]
  /\ optimal = Unset

\* print_summary, lines 167-185: the table, then the optimal level; max() of
\* an empty list raises ValueError
PrintSummary ==
  /\ prog = "summary" /\ optimal = Unset
  /\ optimal' = IF summary = << >> THEN [kind |-> "ValueError"]
                ELSE [kind |-> "level", level |-> MaxByQps(summary)]
  /\ UNCHANGED <<cvars, dvars, ivars, prog, times, stats_c, stats_d, summary, bvars, uvars>>


\* ------------------------------------- the inserters' split into batches
\* the batches insert_data_parallel generates and puts, lines 155-167:
\* batch_id runs over range(batches_needed), and generate_batch makes
\* current_batch_size rows (lines 74-93)
ParallelBatches(rows, size) ==
  [i \in 1..BatchesNeeded(rows, size) |-> CurrentBatchSize(i - 1, rows, size)]

\* the loop of insert_data (aurora-map-insert.py lines 95-118) from row i on,
\* with pending rows in data_to_insert and the batches out inserted so far:
\* a row is added, and the list is inserted and emptied when it has
\* batch_size rows
RECURSIVE SeqLoop(_, _, _, _, _)
SeqLoop(i, pending, out, rows, size) ==
  IF i = rows THEN <<pending, out>>
  ELSE IF pending + 1 >= size
       THEN SeqLoop(i + 1, 0, Append(out, pending + 1), rows, size)
       ELSE SeqLoop(i + 1, pending + 1, out, rows, size)

\* an insert_data that forgets the rows left over after the loop
SequentialBatchesNoRest(rows, size) == SeqLoop(0, 0, << >>, rows, size)[2]

\* insert_data, lines 91-128: the loop, then the remaining records, if any
SequentialBatches(rows, size) ==
  LET end == SeqLoop(0, 0, << >>, rows, size)
  IN IF end[1] > 0 THEN Append(end[2], end[1]) ELSE end[2]

BIdle ==
  /\ split_rows = 1
  /\ split_size = 1
  /\ par_batches = << >>
  /\ seq_batches = << >>

BInit ==
  /\ split_rows \in 1..MaxSplitRows
  /\ split_size \in 1..MaxSplitSize
  /\ par_batches = << >>
  /\ seq_batches = << >>

\* insert_data_parallel splits the rows
BSplitParallel ==
  /\ prog = "batches" /\ par_batches = << >>
  /\ par_batches' = ParallelBatches(split_rows, split_size)
  /\ UNCHANGED <<cvars, dvars, ivars, prog, times, stats_c, stats_d, summary,
                 optimal, split_rows, split_size, seq_batches, uvars>>

\* insert_data splits the rows
BSplitSequential ==
  /\ prog = "batches" /\ seq_batches = << >>
  /\ seq_batches' = SequentialBatches(split_rows, split_size)
  /\ UNCHANGED <<cvars, dvars, ivars, prog, times, stats_c, stats_d, summary,
                 optimal, split_rows, split_size, par_batches, uvars>>

BNext == BSplitParallel \/ BSplitSequential

\* ------------------------------------------------ JSON update drivers
UThreads == 1..NUM_THREADS

\* what can go wrong inside one update_row call: nothing, or the statement
\* named raises ("select" only exists in the full update)
UFaults(driver) ==
  IF driver = "all" THEN {"none", "select", "update", "commit"}
  ELSE {"none", "update", "commit"}

NoCall ==
  [ret |-> "none", rows |-> 0, committed |-> FALSE, raised |-> FALSE,
   rolled_back |-> FALSE]

\* update_row, except clause (aurora-json-update-all.py lines 46-49,
\* aurora-json-update-set.py lines 78-81): print, connection.rollback(),
\* return False; a rollback that raises itself leaves update_row with that
\* exception
UExcept(rollback_ok) ==
  [ret |-> IF rollback_ok THEN "False" ELSE "raised", rows |-> 0,
   committed |-> FALSE, raised |-> TRUE, rolled_back |-> rollback_ok]

\* update_row of aurora-json-update-all.py, lines 18-49: SELECT the row; if
\* there is one, UPDATE it with the new JSON, commit and return True, else
\* return False
update_row_all(table, random_id, fault, rollback_ok) ==
  IF fault = "select" THEN UExcept(rollback_ok)
  ELSE IF random_id \notin table
  THEN [ret |-> "False", rows |-> 0, committed |-> FALSE, raised |-> FALSE,
        rolled_back |-> FALSE]
  ELSE IF fault \in {"update", "commit"} THEN UExcept(rollback_ok)
  ELSE [ret |-> "True", rows |-> 1, committed |-> TRUE, raised |-> FALSE,
        rolled_back |-> FALSE]

\* update_row of aurora-json-update-set.py, lines 59-81: UPDATE ... WHERE
\* id = random_id, commit and return True; the UPDATE changes the row of that
\* id if there is one and no row otherwise, and its row count is not read
update_row_set(table, random_id, fault, rollback_ok) ==
  IF fault \in {"update", "commit"} THEN UExcept(rollback_ok)
  ELSE [ret |-> "True", rows |-> IF random_id \in table THEN 1 ELSE 0,
        committed |-> TRUE, raised |-> FALSE, rolled_back |-> FALSE]

update_row(driver, table, random_id, fault, rollback_ok) ==
  IF driver = "all" THEN update_row_all(table, random_id, fault, rollback_ok)
  ELSE update_row_set(table, random_id, fault, rollback_ok)

UIdle ==
  /\ u_driver = "all"
  /\ fight = {}
  /\ utpc = [t \in UThreads |-> "start"]
  /\ updates_count = [t \in UThreads |-> 0]
  /\ u_calls = [t \in UThreads |-> 0]
  /\ u_updated = [t \in UThreads |-> 0]
  /\ u_last = [t \in UThreads |-> NoCall]

\* main, lines 75-77 / 107-109: every thread_task submitted; the table holds
\* any of the ids 1..MAX_ID
UInit ==
  /\ u_driver \in {"all", "set"}
  /\ fight \in SUBSET (1..MAX_ID)
  /\ utpc = [t \in UThreads |-> "start"]
  /\ updates_count = [t \in UThreads |-> 0]
  /\ u_calls = [t \in UThreads |-> 0]
  /\ u_updated = [t \in UThreads |-> 0]
  /\ u_last = [t \in UThreads |-> NoCall]

UFrame == UNCHANGED <<cvars, dvars, ivars, prog, times, stats_c, stats_d,
                      summary, optimal, bvars, u_driver, fight>>

\* thread_task, lines 53-59 / 85-91: pymysql.connect, outside the try block
UConnect(t) ==
  /\ prog = "update" /\ utpc[t] = "start"
  /\ \E ok \in BOOLEAN :
       utpc' = [utpc EXCEPT ![t] = IF ok THEN "loop" ELSE "raised"]
  /\ UNCHANGED <<updates_count, u_calls, u_updated, u_last>>
  /\ UFrame

\* thread_task, lines 61-72 / 93-104, one round of `while True`: the call of
\* update_row, updates_count += 1 if it answered True, the sleep; an
\* exception that leaves update_row is caught by `except Exception`, which
\* prints, and the finally clause closes the connection: the thread ends
thread_task(t) ==
  /\ prog = "update" /\ utpc[t] = "loop"
  /\ u_calls[t] < MaxUpdateCalls
  /\ \E random_id \in 1..MAX_ID, fault \in UFaults(u_driver), rollback_ok \in BOOLEAN :
       LET o == update_row(u_driver, fight, random_id, fault, rollback_ok)
       IN /\ u_last' = [u_last EXCEPT ![t] = o]
          /\ u_updated' = [u_updated EXCEPT ![t] = @ + o.rows]
          /\ updates_count' = [updates_count EXCEPT ![t] =
                                 IF o.ret = "True" THEN @ + 1 ELSE @]
          /\ utpc' = [utpc EXCEPT ![t] = IF o.ret = "raised" THEN "closed" ELSE "loop"]
  /\ u_calls' = [u_calls EXCEPT ![t] = @ + 1]
  /\ UFrame

UNext == \E t \in UThreads : UConnect(t) \/ thread_task(t)

\* ------------------------------------------------------------- the system
Init ==
  \/ /\ prog = "count"
     /\ (CInitMain \/ CInitApi)
     /\ DIdle
     /\ IInitRun
     /\ SIdle
     /\ BIdle
     /\ UIdle
  \/ /\ prog = "duration"
     /\ CIdle
     /\ DInitMain
     /\ IInitRun
     /\ SIdle
     /\ BIdle
     /\ UIdle
  \/ /\ prog = "insert"
     /\ CIdle
     /\ DIdle
     /\ IInitRun
     /\ SIdle
     /\ BIdle
     /\ UIdle
  \/ /\ prog = "stats"
     /\ CIdle
     /\ DIdle
     /\ IInitRun
     /\ SInit
     /\ BIdle
     /\ UIdle
  \/ /\ prog = "summary"
     /\ CIdle
     /\ DIdle
     /\ IInitRun
     /\ PInit
     /\ BIdle
     /\ UIdle
  \/ /\ prog = "batches"
     /\ CIdle
     /\ DIdle
     /\ IInitRun
     /\ SIdle
     /\ BInit
     /\ UIdle


Next == CNext \/ DNext \/ INext \/ SNext \/ PrintSummary \/ BNext

Spec == Init /\ [][Next]_vars

\* only a JSON update driver runs
UpdateInit ==
  /\ prog = "update"
  /\ CIdle
  /\ DIdle
  /\ IInitRun
  /\ SIdle
  /\ BIdle
  /\ UInit

UpdateSpec == UpdateInit /\ [][UNext]_vars

\* ------------------------------------------------------------- the claims

\* C1: insert_data_parallel terminates: once the producer has enqueued every
\* batch and one None per worker, every item has been taken from the queue
\* and every worker has left worker_insert, the producer's q.join() returns.
C1_JoinReturns ==
  (/\ prog = "insert" /\ ipc = "join"
   /\ q = << >>
   /\ \A w \in IWorkers : iw[w] = "exited")
    => ENABLED IJoin

\* C2: in the count-based harness every connection taken from the pool is
\* given back exactly once on every exit path of execute_query: the pool's
\* count of checked-out connections is the number of calls that hold one, and
\* it is 0 whenever run_benchmark is not running its workers.
C2_ReleasedOnEveryPath ==
  prog = "count" =>
    /\ used = Cardinality({w \in Workers : conn[w]})
    /\ c_run \in {"stats", "returned", "idle"} => used = 0

\* a level has returned in which a query raised while holding a connection
C2_Witness ==
  /\ prog = "count" /\ c_run = "returned"
  /\ put_on_error
  /\ used = 0

\* C3: with pool_size connections checked out, a further acquire waits for a
\* release: it is never failed.
C3_AcquireBlocks ==
  prog = "count" => \A w \in Workers : err[w] # "exhausted"

\* C4: in a run started from main the pool is at least as large as every
\* level of the sweep, at most pool_size connections are checked out, and no
\* acquire fails because the pool is exhausted.
C4_PoolNeverExhausted ==
  (prog = "count" /\ entry = "main") =>
    /\ pool_size >= SeqMax(c_levels)
    /\ used <= pool_size
    /\ \A w \in Workers : err[w] # "exhausted"

\* a run from main in which every connection of the pool is checked out by
\* a cohort of more than one worker
C4_Witness ==
  /\ prog = "count" /\ entry = "main" /\ c_run = "running"
  /\ Concurrency > 1
  /\ used = pool_size

\* C5: the latency timer runs only while the connection is held: it is
\* started after the connection is obtained and stopped before it is given
\* back (both harnesses).
C5_TimerInsideAcquire ==
  /\ \A w \in Workers : timing[w] => conn[w]
  /\ \A w \in Workers : d_timing[w] => d_conn[w]

\* C6: in the count-based harness a failed query does not end the worker:
\* a worker that has returned has attempted all c_queries queries.
C6_FailureDoesNotEndWorker ==
  prog = "count" =>
    \A w \in Workers :
      /\ cpc[w] \in {"none", "loop", "getconn", "exec", "finally", "done"}
      /\ cpc[w] = "done" => iter[w] = c_queries

\* a worker has returned after at least two attempts, all of which failed
C6_Witness ==
  /\ prog = "count"
  /\ \E w \in Workers :
       /\ cpc[w] = "done"
       /\ iter[w] >= 2
       /\ task_results[w] = 0

\* C7: in the duration-based harness a failed query does not end a worker's
\* loop: a worker leaves its loop only because it saw the stop signal.
C7_ErrorKeepsWorkerRunning ==
  prog = "duration" =>
    \A w \in Workers : dpc[w] \in {"finally", "returned"} => d_exit[w] = "stop"

\* C8: a worker whose task raises does not make run_benchmark raise: the
\* level still returns its statistics.
C8_WorkerFailureIsContained ==
  /\ prog = "duration" => d_run # "raised"
  /\ prog = "count" => \A w \in Workers : cpc[w] # "raised"

\* levels the duration-based sweep has started
DAttempted ==
  ((d_level - d_step) \div d_step) + (IF d_run = "idle" THEN 0 ELSE 1)

\* C9: a sweep runs all its levels and its result holds exactly one entry
\* per attempted level, in both harnesses.
C9_EveryLevelReported ==
  /\ (prog = "count" /\ c_main = "closed") => all_results = c_levels
  /\ (prog = "duration" /\ d_main \in {"exit0", "exit1"})
       => Len(d_results) = DAttempted

\* C10: run_benchmark reduces the samples only after every worker of the
\* cohort has returned (both harnesses).
C10_StatsAfterAllWorkersReturned ==
  /\ (prog = "count" /\ c_run \in {"stats", "returned"})
       => \A w \in Cohort : cpc[w] = "done"
  /\ (prog = "duration" /\ d_run \in {"process", "returned"})
       => \A w \in DCohort : dpc[w] = "returned"

\* the statistics of a cohort of more than one worker are being computed
C10_Witness ==
  /\ prog = "count" /\ c_run = "stats"
  /\ Concurrency > 1
  /\ results >= 1

\* C11: run_benchmark returns even if a worker never returns.  Take a state
\* in which run_benchmark waits for its cohort and every worker that has not
\* returned is inside a query round trip, which may never end: the runner
\* can still go on (its safety timeout ends the wait), in both harnesses.
C11_WaitEndsWithoutWorkers ==
  /\ (/\ prog = "count" /\ c_run = "running"
      /\ \A w \in Cohort : cpc[w] \in {"exec", "done"})
       => ENABLED CExitPool
  /\ (/\ prog = "duration" /\ d_run = "wait"
      /\ \A w \in DCohort : dpc[w] \in {"query", "returned"})
       => ENABLED DCollect

\* C12: in a duration-based run, once the stop event is set each worker
\* begins at most one further query; a worker that is in a round trip while
\* the event is set is not cut short by it: it leaves the round trip only
\* with its sample put on the result queue and counted, or by the query's own
\* exception; and a worker that polls while the event is set leaves its loop.
C12_StopLetsQueryFinish ==
  /\ [](prog = "duration" => \A w \in Workers : after_stop[w] <= 1)
  /\ [][(prog = "duration" /\ stop_event) =>
          \A w \in Workers :
            /\ (dpc[w] = "query" /\ dpc'[w] # "query") =>
                 \/ /\ dpc'[w] = "poll"
                    /\ results_queue' = results_queue + 1
                    /\ query_count'[w] = query_count[w] + 1
                 \/ d_exit'[w] = "error"
            /\ (dpc[w] = "poll" /\ dpc'[w] # "poll") =>
                 (dpc'[w] = "finally" /\ d_exit'[w] = "stop")]_vars

\* a worker has begun a query after the stop event was set, has put its
\* sample on the queue and has left its loop at the next poll
C12_Witness ==
  /\ prog = "duration"
  /\ \E w \in DCohort :
       /\ after_stop[w] = 1
       /\ query_count[w] >= 1
       /\ d_exit[w] = "stop"
       /\ dpc[w] = "returned"
  /\ results_queue >= 1

\* only the duration-based harness runs
DurInit ==
  /\ prog = "duration"
  /\ CIdle
  /\ DInitMain
  /\ IInitRun
  /\ SIdle
  /\ BIdle
  /\ UIdle

\* The duration-based harness with a fair scheduler: a step of a worker
\* thread or of the main thread that stays possible is taken, and every
\* query round trip ends.
FairDurSpec ==
  /\ DurInit
  /\ [][DNext]_vars
  /\ \A w \in Workers :
       /\ WF_vars(DConnect(w))
       /\ WF_vars(DPoll(w))
       /\ WF_vars(DBegin(w))
       /\ WF_vars(DQuery(w))
       /\ WF_vars(DFinally(w))
  /\ WF_vars(DStop)
  /\ WF_vars(DCollect)
  /\ WF_vars(DProcess)

\* C13: in a duration-based run in which every query round trip ends, once
\* the stop event is set and run_benchmark waits for its workers, eventually
\* every worker of the cohort has left execute_query and run_benchmark is
\* over, for every worker count.
C13_StopEndsTheLevel ==
  (prog = "duration" /\ d_run = "wait")
    ~> (/\ \A w \in Workers :
             w \in DCohort => dpc[w] \in {"returned", "raised"}
        /\ d_run \in {"returned", "raised"})

\* a level of two workers is over; a worker of it has run queries and has
\* left on the stop event
C13_Witness ==
  /\ prog = "duration"
  /\ d_run = "returned"
  /\ d_level = 2
  /\ \A w \in DCohort : dpc[w] = "returned"
  /\ \E w \in DCohort : d_exit[w] = "stop" /\ query_count[w] >= 1

\* C14: in a count-based run with concurrency c and q queries per thread
\* exactly c worker tasks are launched; when the level is reduced each task
\* has attempted exactly q queries, and the reported total_queries is the
\* number of successful samples of the cohort, at most c * q.
C14_CountRunAttempts ==
  prog = "count" =>
    /\ c_run # "idle" =>
         Cardinality({w \in Workers : cpc[w] # "none"}) = Concurrency
    /\ c_run \in {"stats", "returned"} =>
         /\ \A w \in Workers : cpc[w] # "none" => iter[w] = c_queries
         /\ SumResults(iter, MaxConc) = Concurrency * c_queries
         /\ CStatsRecord.total_queries = SumResults(task_results, MaxConc)
         /\ CStatsRecord.total_queries <= Concurrency * c_queries

\* a level of 2 workers and 2 queries each has returned its statistics, with
\* fewer successful samples than attempts
C14_Witness ==
  /\ prog = "count" /\ c_run = "returned" /\ c_ret = "stats"
  /\ Concurrency = 2 /\ c_queries = 2
  /\ CStatsRecord.total_queries \in 1..3

\* C15: the reported queries_per_second is total_queries divided by the
\* wall-clock span from the launch of the workers to the return of the last
\* one; stated for the duration-based harness, whose span the model keeps in
\* d_wall: dividend / divisor = total_queries / d_wall.
C15_QpsOverObservedSpan ==
  (prog = "duration" /\ d_run = "returned") =>
    DQueriesPerSecond[1] * d_wall = total_queries * DQueriesPerSecond[2]

\* C16: for every non-empty list of n latencies, also for n < 20, the
\* reported p95 is the element at 0-based index floor(0.95 n) of the sorted
\* latencies, and that index is within 0..n-1 (both harnesses).
C16_P95AtFloorIndex ==
  (prog = "stats" /\ times # << >>) =>
    LET n == Len(times)
        idx == (95 * n) \div 100
    IN /\ idx \in 0..(n - 1)
       /\ stats_c # Unset => stats_c.p95_time = sorted(times)[idx + 1]
       /\ stats_d # Unset => stats_d.p95_query_time = sorted(times)[idx + 1]

\* C17 as stated: for exactly 20 latencies the reported p95 is the
\* 19th-smallest one, the element at 0-based index 18 of the sorted list.
C17_TwentySamplesIndex18 ==
  (prog = "stats" /\ Len(times) = 20) =>
    /\ stats_c # Unset => stats_c.p95_time = sorted(times)[18 + 1]
    /\ stats_d # Unset => stats_d.p95_query_time = sorted(times)[18 + 1]

\* C17: for exactly 20 latencies the reported p95 is the 20th-smallest one,
\* the largest: the element at 0-based index floor(0.95 * 20) = 19 of the
\* sorted list, in both harnesses.
C17_TwentySamplesIndex19 ==
  (prog = "stats" /\ Len(times) = 20) =>
    /\ stats_c # Unset =>
         /\ stats_c.p95_time = sorted(times)[19 + 1]
         /\ stats_c.p95_time = stats_c.max_time
    /\ stats_d # Unset =>
         /\ stats_d.p95_query_time = sorted(times)[19 + 1]
         /\ stats_d.p95_query_time = stats_d.max_query_time

\* both harnesses have reduced 20 different latencies that were not in
\* ascending order, and report the largest as p95
C17_Witness ==
  /\ prog = "stats" /\ Len(times) = 20
  /\ times # sorted(times)
  /\ stats_c # Unset /\ stats_d # Unset
  /\ stats_c.p95_time = 20 /\ stats_d.p95_query_time = 20

\* C18: when a level ends without a successful sample run_benchmark still
\* returns a statistics record, and the latency statistics in it are 0 (the
\* record that is to tell "nothing attempted" from "all failed").
C18_EmptyLevelYieldsZeroStats ==
  /\ (prog = "count" /\ c_run = "returned" /\ results = 0) => c_ret = "stats"
  /\ (prog = "stats" /\ times = << >>) =>
       /\ stats_c # Unset =>
            /\ stats_c.kind = "stats"
            /\ stats_c.mean_time[1] = 0
            /\ stats_c.p95_time = 0
       /\ stats_d # Unset =>
            /\ stats_d.kind = "stats"
            /\ stats_d.avg_query_time[1] = 0
            /\ stats_d.p95_query_time = 0

\* C19: failed invocations add nothing to the statistics, and the number of
\* failed invocations of the level is available in the result.  For a level
\* of the count-based harness that returned statistics although some
\* invocation failed: total_queries counts the successful invocations only,
\* and some counting field of the stats dict holds the number of failed
\* ones (its other fields are latencies and row counts).
C19_FailedCountInResult ==
  (/\ prog = "count" /\ c_run = "returned" /\ c_ret = "stats"
   /\ results < Concurrency * c_queries) =>
    /\ CStatsRecord.total_queries = SumResults(task_results, MaxConc)
    /\ \E k \in DOMAIN CStatsRecord :
         CStatsRecord[k] = Concurrency * c_queries - results

\* C20: a failure to get a connection from the pool and a failure of the
\* query are told apart by what execute_query returns: of two calls that
\* are about to return, one after getconn raised and one after the query
\* raised, the return values differ.
C20_AcquireFailureIsDistinct ==
  prog = "count" =>
    \A v \in Workers, w \in Workers :
      (/\ cpc[v] = "finally" /\ err[v] \in {"connect", "exhausted"}
       /\ cpc[w] = "finally" /\ err[w] = "query")
        => Returned(v) # Returned(w)

\* C21: with exactly one successful sample run_benchmark returns its
\* statistics with a standard deviation of 0; with two or more it reports
\* the sample standard deviation, the root of
\* (n sum(x^2) - sum(x)^2) / (n (n - 1)).
C21_StddevOfOneSampleIsZero ==
  (prog = "stats" /\ stats_c # Unset /\ times # << >>) =>
    LET n == Len(times)
    IN /\ stats_c.kind = "stats"
       /\ n = 1 => stats_c.stddev_time = <<0, 1>>
       /\ n >= 2 =>
            stats_c.stddev_time =
              <<n * sumsq(times) - sum(times) * sum(times), n * (n - 1)>>

\* the count-based statistics of a single sample have been returned
C21_Witness ==
  /\ prog = "stats" /\ Len(times) = 1
  /\ stats_c # Unset /\ stats_c.kind = "stats"
  /\ stats_c.total_queries = 1
  /\ stats_c.stddev_time = <<0, 1>>

\* C22: the levels of a sweep never overlap.  A worker runs only while the
\* run_benchmark call of its level is waiting for the cohort, every running
\* worker belongs to the cohort of that one level, and so the next level,
\* which is launched from the idle runner, starts with every worker of the
\* level before it returned (both harnesses).
C22_LevelsNeverOverlap ==
  /\ prog = "count" =>
       /\ c_run # "running" => \A w \in Workers : cpc[w] \in {"none", "done"}
       /\ c_run = "running" => \A w \in Workers \ Cohort : cpc[w] = "none"
  /\ prog = "duration" =>
       /\ d_run \notin {"sleep", "wait"} =>
            \A w \in Workers : dpc[w] \in {"none", "returned", "raised"}
       /\ d_run \in {"sleep", "wait"} =>
            \A w \in Workers \ DCohort : dpc[w] = "none"

\* the second level of a duration-based sweep runs: a worker of it is in a
\* query, after the first level was recorded
C22_Witness ==
  /\ prog = "duration" /\ d_run = "sleep"
  /\ Len(d_results) = 1
  /\ \E w \in DCohort : dpc[w] = "query"

\* the list is in ascending order
IsAscending(s) == \A i \in 1..(Len(s) - 1) : s[i] <= s[i + 1]

\* C23: whatever the order of the levels given to the sweep, the levels are
\* recorded, and listed in the comparison table, in ascending concurrency
\* order (both harnesses).
C23_LevelsAscending ==
  /\ (prog = "count" /\ c_main = "closed") => IsAscending(all_results)
  /\ prog = "duration" => IsAscending(d_results)

\* C24: the level print_summary labels optimal is a level of the result
\* list, and no level of the list has a greater queries_per_second.
C24_OptimalIsMaximal ==
  (prog = "summary" /\ optimal # Unset /\ optimal.kind = "level") =>
    /\ \E i \in 1..Len(summary) : summary[i] = optimal.level
    /\ \A j \in 1..Len(summary) :
         summary[j].queries_per_second <= optimal.level.queries_per_second

\* print_summary has labelled a level that is neither the first nor the last
\* of a list whose levels differ in queries_per_second
C24_Witness ==
  /\ prog = "summary" /\ Len(summary) = 3
  /\ optimal # Unset /\ optimal.kind = "level"
  /\ optimal.level = summary[2]
  /\ summary[1].queries_per_second < summary[3].queries_per_second
  /\ summary[3].queries_per_second < summary[2].queries_per_second

\* C25: the benchmark program exits with code 0 exactly when the sweep
\* completed, and with a non-zero code when setup fails (the pool or the
\* initial connection cannot be established), in both harnesses.
C25_ExitCodeTellsSetupFailure ==
  /\ (prog = "count" /\ c_main = "closed") => CExitCode = 0
  /\ (prog = "count" /\ c_main = "failed") => CExitCode # 0
  /\ (prog = "duration" /\ d_main \in {"exit0", "exit1"}) =>
       (DExitCode = 0 => (d_level > d_max /\ d_run = "idle"))
  /\ (prog = "duration" /\ d_main = "exit1" /\ d_run = "idle"
        /\ d_level = d_step) => DExitCode # 0

\* C26: no sample of a level is produced and counted before every worker of
\* the level's cohort has started: while a worker has not yet taken its
\* first step, no worker of the cohort has a sample (both harnesses).
C26_StartBarrier ==
  /\ (prog = "count" /\ c_run = "running"
        /\ \E w \in Cohort : task_results[w] > 0)
       => \A v \in Cohort : cpc[v] # "loop"
  /\ (prog = "duration" /\ d_run \in {"sleep", "wait"} /\ results_queue > 0)
       => \A v \in DCohort : dpc[v] # "start"

\* workers that have put a sample on the result queue of the level
\* (execute_query does query_count += 1 right after each put)
QueueWriters == {w \in Workers : query_count[w] > 0}

\* C27: a sample sequence is written by one worker only, the connection pool
\* being the only object that more than one worker changes during a run: in
\* the duration-based harness the object that receives the samples has at
\* most one writer in a level.
C27_SamplesHaveOneWriter ==
  (prog = "duration" /\ d_run \in {"sleep", "wait"}) =>
    Cardinality(QueueWriters) <= 1

\* C28: in the parallel inserter the work queue never holds more than
\* QUEUE_SIZE items, and while it holds QUEUE_SIZE items the producer's put
\* (of a batch or of a termination signal) cannot take place.
C28_QueueBounded ==
  prog = "insert" =>
    /\ Len(q) <= QUEUE_SIZE
    /\ Len(q) = QUEUE_SIZE => (~ENABLED IPutBatch /\ ~ENABLED IPutPill)

\* the queue is full and the producer still has a batch to put
C28_Witness ==
  /\ prog = "insert" /\ ipc = "put"
  /\ Len(q) = QUEUE_SIZE
  /\ batch_id < BatchesNeeded(NUM_ROWS, BATCH_SIZE)

\* C29: in the parallel inserter no worker leaves through the empty-queue
\* timeout while the producer still has batches to put, so the producer is
\* never left at a put on a full queue with every worker gone.
C29_NoWorkerLeavesEarly ==
  (prog = "insert" /\ ipc = "put"
     /\ batch_id < BatchesNeeded(NUM_ROWS, BATCH_SIZE)) =>
    /\ \A w \in IWorkers : iw[w] # "exited"
    /\ ~(Len(q) = QUEUE_SIZE /\ \A w \in IWorkers : iw[w] = "exited")

\* data batches a worker has taken from the queue
IDequeued == batch_id - Cardinality({i \in 1..Len(q) : q[i] # PoisonPill})

\* task_done calls so far: every put added 1 to unfinished, every task_done
\* took 1 away
ITaskDone == batch_id + pills - unfinished

\* C30, the accounting: task_done has been called exactly once for every
\* data batch that was dequeued and is no longer in a worker's hands, and
\* the workers have counted no more rows than those batches hold.
C30_Accounting ==
  prog = "insert" =>
    /\ ITaskDone = IDequeued - Cardinality({w \in IWorkers : iw[w] = "insert"})
    /\ SumRows(rows_inserted, NUM_WORKERS) <= NUM_ROWS
    /\ \A w \in IWorkers : iw[w] # "insert" => item[w] = 0

\* C30: task_done is called exactly once per dequeued data batch, a failed
\* batch adds nothing to rows_inserted, and the total is reported and equals
\* the rows of the committed batches: once the workers have returned with
\* every batch marked done, insert_data_parallel gets past its join, and the
\* total it reports is the sum of the workers' counts.
C30_TotalReported ==
  /\ C30_Accounting
  /\ (/\ prog = "insert" /\ ipc = "join"
      /\ \A w \in IWorkers : iw[w] = "exited"
      /\ ITaskDone = BatchesNeeded(NUM_ROWS, BATCH_SIZE))
       => ENABLED IJoin
  /\ (prog = "insert" /\ ipc = "done")
       => total_inserted = SumRows(rows_inserted, NUM_WORKERS)

\* C31: for every NUM_ROWS >= 1 and batch size >= 1 both inserters split the
\* rows into batches of 1..batch-size rows each whose sizes sum to NUM_ROWS:
\* a last short batch carries the remainder and no batch is empty.
C31_BatchesCoverRows ==
  prog = "batches" =>
    /\ par_batches # << >> =>
         /\ \A i \in 1..Len(par_batches) : par_batches[i] \in 1..split_size
         /\ sum(par_batches) = split_rows
    /\ seq_batches # << >> =>
         /\ \A i \in 1..Len(seq_batches) : seq_batches[i] \in 1..split_size
         /\ sum(seq_batches) = split_rows

\* both inserters have split a number of rows that is no multiple of the
\* batch size: several full batches and a last short one
C31_Witness ==
  /\ prog = "batches"
  /\ split_rows % split_size > 0
  /\ Len(par_batches) >= 3 /\ Len(seq_batches) >= 3
  /\ par_batches[Len(par_batches)] < split_size
  /\ seq_batches[Len(seq_batches)] < split_size
  /\ par_batches = seq_batches

\* C32: in the duration-based sweep every level starts with the stop event
\* clear and, before a worker of the level has run, with an empty result
\* queue; the samples on the queue, and those drained and counted for the
\* level, are exactly the ones the workers of that level have put.
C32_LevelStartsClean ==
  prog = "duration" =>
    /\ d_run = "sleep" => ~stop_event
    /\ (d_run \in {"sleep", "wait"} /\ \A w \in DCohort : dpc[w] = "start")
         => results_queue = 0
    /\ d_run \in {"sleep", "wait"} =>
         /\ results_queue = SumCounts(query_count, d_level)
         /\ \A w \in Workers \ DCohort : query_count[w] = 0
    /\ d_run = "returned" => drained = SumCounts(query_count, d_level)

\* the second level of a sweep has been reduced, with samples of its own
\* two workers
C32_Witness ==
  /\ prog = "duration" /\ d_run = "returned"
  /\ Len(d_results) = 1 /\ d_level = 2
  /\ \A w \in DCohort : query_count[w] >= 1
  /\ drained >= 2

\* C33: a duration-based run that reports has total_queries equal to the sum
\* of the counters its workers returned and equal to the number of samples
\* drained from the result queue, also when a worker left its loop on a
\* failed query; until then every counter equals the samples its worker put.
C33_CountedOnceInBothPlaces ==
  prog = "duration" =>
    /\ d_run = "returned" =>
         /\ total_queries = SumCounts(query_count, d_level)
         /\ total_queries = drained
         /\ results_queue = 0
    /\ d_run = "process" => total_queries = results_queue

\* a level of two workers has reported: one worker ended early on a failed
\* query after a completed one, the other was ended by the stop event
C33_Witness ==
  /\ prog = "duration" /\ d_run = "returned" /\ d_level = 2
  /\ d_exit[1] = "error" /\ query_count[1] >= 1
  /\ d_exit[2] = "stop" /\ query_count[2] >= 1
  /\ total_queries = drained /\ drained >= 2

\* C34: in both JSON update drivers a call of update_row answers True only
\* when it updated a row and committed; a call in which a statement raised
\* was rolled back and answered False, left updates_count as it was, and
\* thread_task went on in its loop.
C34_TrueMeansUpdated ==
  [][\A t \in UThreads :
       u_calls'[t] = u_calls[t] + 1 =>
         /\ u_last'[t].ret = "True" =>
              u_last'[t].rows >= 1 /\ u_last'[t].committed
         /\ u_last'[t].raised =>
              /\ u_last'[t].rolled_back
              /\ u_last'[t].ret = "False"
              /\ updates_count'[t] = updates_count[t]
              /\ utpc'[t] = "loop"]_vars

\* what holds of both drivers: a call that answered True was committed, a
\* call in which a statement raised committed nothing and was not counted,
\* and the full update answers True only for a row it found and updated
C34_Holds ==
  prog = "update" =>
    \A t \in UThreads :
      /\ u_last[t].ret = "True" => u_last[t].committed /\ ~u_last[t].raised
      /\ u_last[t].raised => u_last[t].rows = 0 /\ ~u_last[t].committed
      /\ u_driver = "all" => updates_count[t] = u_updated[t]
      /\ updates_count[t] >= u_updated[t]

=============================================================================
